---- MODULE Spec2Model ----
(***************************************************************************)
(* Model of libdocview (src/src/libdocview/libdocview.cpp): the process    *)
(* wide extension registry (loaded_libs, loaded_extensions,                *)
(* loaded_c_extensions, root_nodes) and its operations load_ext,           *)
(* unload_ext, get_doc_tree, is_loaded and validate, and of the shell      *)
(* around it (src/src/docview.cpp): the tabs, the sidebar and the          *)
(* preferences handlers that load and unload extensions.                   *)
(***************************************************************************)
EXTENDS Integers, Sequences, FiniteSets, TLC

(***************************************************************************)
(* Bounds of the exploration.                                              *)
(***************************************************************************)
\* dl_ptr objects in loaded_libs at a time
MaxLibs == 2
\* module handles open at a time, those no dl_ptr holds any more included
MaxOpen == 3
\* c_extension objects created over a run
MaxAdapters == 1
\* number of get_doc_tree calls that return a tree over a run
MaxParses == 2
\* tabs opened over a run, the initial one included
MaxTabs == 6
\* entries in the vector loaded_extensions of the shell at a time
MaxShellLoaded == 3

(***************************************************************************)
(* The file system the process runs on.  Extension modules are regular     *)
(* files, "lnk" is a symbolic link to a.so, "dang" a symbolic link whose   *)
(* target is missing, "dir" a directory; d1 and d2 are documentation       *)
(* paths.                                                                  *)
(***************************************************************************)
ModuleFiles == {"a.so", "b.so", "c.so", "bad.so", "noopen.so"}
\* further module files, see below what the loader finds in them
MoreModuleFiles == {"tbl0.so", "both.so", "odd.so"}
ExtPaths == ModuleFiles \cup {"lnk", "dang", "dir", "gone"}
DocPaths == {"d1", "d2"}
\* the paths get_doc_tree is called with
ParsePaths == DocPaths \cup {"gone", "dang"}
\* the paths load_ext finds an extension at
ModulePaths == {"a.so", "b.so", "c.so", "lnk"}
\* the paths of the calls in a run that uses every function of the API
ApiPaths == {"a.so", "b.so", "lnk", "bad.so"}
\* the paths load_ext is called with in a run up to the end of the process
ExitPaths == ModulePaths \cup {"bad.so", "noopen.so"}
\* the paths load_ext is called with where the symbols of the module matter
LoadPaths ==
    MoreModuleFiles \cup {"b.so", "bad.so", "noopen.so", "dir", "dang", "gone"}

Kind(p) ==
    CASE p \in ModuleFiles -> "file"
      [] p \in MoreModuleFiles -> "file"
      [] p \in DocPaths -> "file"
      [] p \in {"lnk", "dang"} -> "symlink"
      [] p = "dir" -> "dir"
      [] OTHER -> "missing"

\* std::filesystem::read_symlink
read_symlink(p) ==
    CASE p = "lnk" -> "a.so"
      [] p = "dang" -> "gone"
      [] OTHER -> p

\* std::filesystem::is_symlink: looks at the path itself
is_symlink(p) == Kind(p) = "symlink"

\* the file std::filesystem::status(p) reports on: symbolic links followed
RECURSIVE Final(_)
Final(p) == IF Kind(p) = "symlink" THEN Final(read_symlink(p)) ELSE p

\* std::filesystem::exists and is_regular_file follow symbolic links
exists(p) == Kind(Final(p)) # "missing"
is_regular_file(p) == Kind(Final(p)) = "file"

\* while (exists(path) && is_symlink(path)) path = read_symlink(path);
RECURSIVE ResolveLoop(_)
ResolveLoop(p) ==
    IF exists(p) /\ is_symlink(p) THEN ResolveLoop(read_symlink(p)) ELSE p

(***************************************************************************)
(* What the dynamic loader finds in each module file.                      *)
(*   a.so   native extension (symbol extension_object), level tiny; keeps  *)
(*          one document tree per path in the module's own memory          *)
(*   b.so   function table (symbol extension_functions), level huge        *)
(*   c.so   native extension, level huge; allocates a new tree on the heap *)
(*          for every parse and never releases it                          *)
(*   bad.so opens, but exports neither symbol                              *)
(*   noopen.so  dlopen fails                                               *)
(*   tbl0.so  function table whose get_doc entry is null                   *)
(*   both.so  native extension object and a complete function table, level *)
(*          medium                                                         *)
(*   odd.so   function table with the three mandatory entries and no other;*)
(*          its applicability_level function returns 7, a value that is    *)
(*          none of the five enumerators                                   *)
(***************************************************************************)
NullHandle == "nullptr"

\* dlopen: the handle is the module object of the file the path leads to
dlopen(p) ==
    IF Final(p) \in {"a.so", "b.so", "c.so", "bad.so"} \cup MoreModuleFiles
    THEN Final(p) ELSE NullHandle

HasExtensionObject(h) == h \in {"a.so", "c.so", "both.so"}
HasExtensionFunctions(h) == h \in {"b.so", "tbl0.so", "both.so", "odd.so"}
\* applicability_level, func_get_docs_tree and get_doc of the table are set
MandatoryFuncsSet(h) == h \in {"b.so", "both.so", "odd.so"}

tiny == 0
small == 1
medium == 2
big == 3
huge == 4

\* value returned by the module's get_applicability_level
ModuleLevel(h) ==
    CASE h = "a.so" -> tiny
      [] h = "b.so" -> huge
      [] h = "c.so" -> huge
      [] h = "odd.so" -> 7
      [] OTHER -> medium

\* whether the module's parse function returns a tree for the path
ModuleParses(h, doc) ==
    CASE h = "a.so" -> doc = "d1"
      [] h = "b.so" -> doc \in {"d1", "d2"}
      [] h = "c.so" -> doc \in {"d1", "d2"}
      [] h = "both.so" -> doc = "d1"
      [] h = "odd.so" -> doc \in {"d1", "d2"}
      [] OTHER -> FALSE

\* the module returns the same tree, kept in its own memory, on every parse
ModuleTreeInModule(h) == h = "a.so"

\* the optional functions: a native extension overrides the virtual method,
\* a function table has a non-null pointer; get_doc is there in both
ModuleImplements(h, fn) ==
    CASE fn = "get_doc" -> TRUE
      [] h = "a.so" -> fn \in {"brief", "section"}
      [] h = "b.so" -> fn \in {"brief", "section"}
      [] OTHER -> FALSE

(***************************************************************************)
(* Strings are sequences of characters.  The trees the modules return have *)
(* the titles abc, acb, "" and abcd; the second node has the synonyms x    *)
(* and abcx, the fourth the synonym abc.                                   *)
(***************************************************************************)
ModuleTitle(i) ==
    CASE i = 1 -> <<"a", "b", "c">>
      [] i = 2 -> <<"a", "c", "b">>
      [] i = 3 -> <<>>
      [] OTHER -> <<"a", "b", "c", "d">>

ModuleSynonyms(i) ==
    CASE i = 2 -> << <<"x">>, <<"a", "b", "c", "x">> >>
      [] i = 4 -> << <<"a", "b", "c">> >>
      [] OTHER -> <<>>

\* the queries search is called with
Queries == {<<>>, <<"a", "b", "c">>, <<"a", "b", "c", "d">>, <<"x">>}

\* std::string::substr(0, n): the first n characters, all of them if fewer
substr(str, n) == SubSeq(str, 1, IF n < Len(str) THEN n ELSE Len(str))

(***************************************************************************)
(* Extension objects (pointers to docview::extension).  A native extension *)
(* is the object extension_object of its module; a c_extension is created *)
(* by every load of a function table module.                               *)
(***************************************************************************)
NullExt == [kind |-> "nullptr", file |-> "", n |-> 0]
NativeExt(h) == [kind |-> "native", file |-> h, n |-> 0]
CExt(h, k) == [kind |-> "c_extension", file |-> h, n |-> k]

\* extension->get_applicability_level()
get_applicability_level(e) == ModuleLevel(e.file)

(***************************************************************************)
(* Document trees.  Every tree has the shape R -> [C1, C2], C1 -> [G1]:    *)
(* TreeShape[i] is the index of the parent of the i-th node, 0 for the     *)
(* root.  A tree allocated at base b occupies the node ids b+1 .. b+4;     *)
(* node id 0 is nullptr.                                                   *)
(***************************************************************************)
TreeShape == <<0, 1, 1, 2>>
TreeSize == Len(TreeShape)

\* the tree of module h for doc that lives in the module's memory
StaticBase(h, doc) == IF doc = "d1" THEN 0 ELSE TreeSize
FirstHeapBase == 2 * TreeSize

TreeNodes(base) == (base + 1) .. (base + TreeSize)

\* the i-th docview_extension_doc_tree_node of the tree the function table of
\* module h returns for doc; NoSrc is nullptr
NoSrc == [file |-> "", doc |-> "", i |-> 0]
Src(h, doc, i) == [file |-> h, doc |-> doc, i |-> i]

\* the parent field of the i-th docview_extension_doc_tree_node of the trees
\* of module h, as an index into the tree, 0 for NULL: the function table
\* modules do not keep it in step with their children arrays
SourceParent(h, i) == <<0, 0, 2, 3>>[i]

\* variant: the parent is the node built from source->parent
build_parent_from_source(base, e, i) ==
    IF e.kind = "c_extension"
    THEN IF SourceParent(e.file, i) = 0 THEN 0 ELSE base + SourceParent(e.file, i)
    ELSE IF TreeShape[i] = 0 THEN 0 ELSE base + TreeShape[i]

\* line 114, node->parent = parent: the node the recursion came from, which
\* is the one whose children array the source is in; nullptr for the root
build_parent(base, e, i) ==
    IF TreeShape[i] = 0 THEN 0 ELSE base + TreeShape[i]

\* variant: no node gets its parent
NewTreeParentless(base, e) ==
    [n \in TreeNodes(base) |->
        [parent |-> 0,
         children |-> SelectSeq([i \in 1..TreeSize |-> base + i],
                                LAMBDA c : TreeShape[c - base] = n - base),
         title |-> IF e.kind = "native" THEN ModuleTitle(n - base) ELSE <<>>,
         synonyms |-> IF e.kind = "native" THEN ModuleSynonyms(n - base) ELSE <<>>]]

\* the doc_tree_node objects of a tree at base.  A native extension fills in
\* title and synonyms; c_extension::build_doc_tree sets parent and children
\* and leaves title and synonyms as the constructor made them
NewTree(base, e) ==
    [n \in TreeNodes(base) |->
        [parent |-> build_parent(base, e, n - base),
         children |-> SelectSeq([i \in 1..TreeSize |-> base + i],
                                LAMBDA c : TreeShape[c - base] = n - base),
         title |-> IF e.kind = "native" THEN ModuleTitle(n - base) ELSE <<>>,
         synonyms |-> IF e.kind = "native" THEN ModuleSynonyms(n - base) ELSE <<>>]]

\* lines 119-120: original_nodes.insert(std::make_pair(node, source))
NewOriginals(base, e, doc) ==
    IF e.kind = "c_extension"
    THEN [n \in TreeNodes(base) |-> Src(e.file, doc, n - base)]
    ELSE <<>>

VARIABLES
    loaded_libs,          \* std::vector<dl_ptr>: [handle, path, extension]
    loaded_extensions,    \* std::vector<docview::extension*>
    loaded_c_extensions,  \* std::vector<std::shared_ptr<docview::extension>>
    root_nodes,           \* std::vector<std::pair<node, extension>>
    nodes,                \* memory of the doc_tree_node objects allocated so far
    released,             \* nodes whose memory went away with their module
    dlrefs,               \* reference count the loader keeps per module object
    last,                 \* the last API call and what it did
    obtained,             \* node -> extension whose parse returned its tree
    orphaned,             \* nodes whose extension was unloaded after the parse
    loadOrder,            \* the active extensions in the order of their loads
    moved,                \* active extensions an erase has moved to a lower index
    nparses,              \* trees returned by get_doc_tree so far
    original_nodes,       \* c_extension::original_nodes of all c_extension objects
    tabs,                 \* std::vector<Gtk::Widget*> tabs of the shell
    tab_num,              \* static unsigned int tab_num of on_tab_added
    visible_child,        \* stack->get_visible_child()
    title_visible_child,  \* title->get_visible_child()
    window_hidden,        \* window->hide() was called
    document_root_nodes,  \* std::vector<std::pair<node, path>> of the shell
    sidebar_contents,     \* the nodes in the rows of the Gtk::TreeStore
    sidebar_search_results, \* the nodes in the rows of the Gtk::ListStore
    sidebar_model,        \* sidebar_tree->get_model()
    search_text,          \* search_entry->get_text()
    shell_loaded_extensions, \* std::vector<path> loaded_extensions of main
    extension_list_contents, \* the rows of the extension list: path, enabled
    config_enabled,       \* the extensions the configuration has as enabled
    has_focus,            \* the widget that has the input focus
    pending               \* the calls the running handler has still to make

\* the state of the registry
registry == <<loaded_libs, loaded_extensions, loaded_c_extensions, root_nodes,
              nodes, released, dlrefs, last, obtained, orphaned, loadOrder,
              moved, nparses, original_nodes>>

\* the state of the shell
gui == <<tabs, tab_num, visible_child, title_visible_child, window_hidden,
         document_root_nodes, sidebar_contents, sidebar_search_results,
         sidebar_model, search_text, shell_loaded_extensions,
         extension_list_contents, config_enabled, has_focus, pending>>

\* the tabs of the shell
tabbar == <<tabs, tab_num, visible_child, title_visible_child, window_hidden>>

\* the sidebar and the preferences of the shell
sidebar == <<document_root_nodes, sidebar_contents, sidebar_search_results,
             sidebar_model, search_text, shell_loaded_extensions,
             extension_list_contents, config_enabled, has_focus, pending>>

vars == <<loaded_libs, loaded_extensions, loaded_c_extensions, root_nodes,
          nodes, released, dlrefs, last, obtained, orphaned, loadOrder,
          moved, nparses, original_nodes, tabs, tab_num, visible_child,
          title_visible_child, window_hidden, document_root_nodes,
          sidebar_contents, sidebar_search_results, sidebar_model,
          search_text, shell_loaded_extensions, extension_list_contents,
          config_enabled, has_focus, pending>>

\* what the caller sees of a call: the function, what it returned or threw,
\* and, of a call that changed the registry, the path it was given, the
\* extension, module handle and position in loaded_libs it acted on and the
\* get_doc_tree calls it made
\* the child the stack "title" shows when the window is built
InitialTitleChild == "title_label"

Call(op, ret, err) ==
    [op |-> op, ret |-> ret, err |-> err, path |-> "", node |-> 0,
     why |-> "", ext |-> NullExt, handle |-> NullHandle,
     closed |-> NullHandle, calls |-> <<>>, pos |-> 0, invoked |-> <<>>,
     query |-> <<>>, found |-> <<>>, symbols |-> <<>>, freed |-> <<>>,
     result |-> <<>>]

Init ==
    /\ loaded_libs = <<>>
    /\ loaded_extensions = <<>>
    /\ loaded_c_extensions = <<>>
    /\ root_nodes = <<>>
    /\ nodes = <<>>
    /\ released = {}
    /\ dlrefs = [h \in ModuleFiles \cup MoreModuleFiles |-> 0]
    /\ last = Call("init", "void", "none")
    /\ obtained = <<>>
    /\ orphaned = {}
    /\ loadOrder = <<>>
    /\ moved = {}
    /\ nparses = 0
    /\ original_nodes = <<>>
    /\ tabs = <<1>>
    /\ tab_num = 1
    /\ visible_child = 1
    /\ title_visible_child = InitialTitleChild
    /\ window_hidden = FALSE
    /\ document_root_nodes = <<>>
    /\ sidebar_contents = <<>>
    /\ sidebar_search_results = <<>>
    /\ sidebar_model = "sidebar_contents"
    /\ search_text = <<>>
    /\ shell_loaded_extensions = <<>>
    /\ extension_list_contents = <<>>
    /\ config_enabled = {}
    /\ has_focus = "startup"
    /\ pending = <<>>

(***************************************************************************)
(* dl_ptr                                                                  *)
(***************************************************************************)
\* dl_ptr::dl_ptr(path): handle(dlopen(path)), path(path), extension(nullptr)
dl_ptr(path) == [handle |-> dlopen(path), path |-> path, extension |-> NullExt]

\* the loader's count after dlopen returned handle h
AfterOpen(refs, h) ==
    IF h = NullHandle THEN refs ELSE [refs EXCEPT ![h] = @ + 1]

\* dl_ptr::~dl_ptr: if (handle) dlclose(handle)
AfterDestroy(refs, lib) ==
    IF lib.handle # NullHandle THEN [refs EXCEPT ![lib.handle] = @ - 1] ELSE refs

(***************************************************************************)
(* docview::is_loaded                                                      *)
(***************************************************************************)
\* variant: the loop starts one entry too late
is_loaded_from_second(libs, path) == \E i \in 2..Len(libs) : libs[i].path = path

is_loaded(libs, path) == \E i \in 1..Len(libs) : libs[i].path = path

(***************************************************************************)
(* docview::load_ext                                                       *)
(***************************************************************************)
\* load_ext returned or threw before anything was opened
LoadReturns(path, err, why) ==
    /\ last' = [Call("load", "void", err) EXCEPT !.why = why]
    /\ UNCHANGED <<loaded_libs, loaded_extensions, loaded_c_extensions,
                   root_nodes, nodes, released, dlrefs, obtained, orphaned,
                   loadOrder, moved, nparses, original_nodes>>

\* the path load_ext hands to dlopen (lines 317-336), "" when it throws
LoadTarget(path) ==
    IF ~exists(path) THEN ""
    ELSE IF ~is_regular_file(path)
         THEN LET target == ResolveLoop(path)
              IN IF ~exists(target) \/ ~is_regular_file(target) THEN "" ELSE target
         ELSE path

\* the memory of module h comes back when the loader maps it again
AfterMap(rel, refs, h) ==
    IF h # NullHandle /\ refs[h] = 0 /\ ModuleTreeInModule(h)
    THEN rel \ {n \in DOMAIN nodes : obtained[n] = NativeExt(h)}
    ELSE rel

\* number of handles the loader has given out and not got back
RECURSIVE SumRefs(_, _)
SumRefs(refs, S) ==
    IF S = {} THEN 0
    ELSE LET h == CHOOSE x \in S : TRUE IN refs[h] + SumRefs(refs, S \ {h})
OpenHandles(refs) == SumRefs(refs, DOMAIN refs)

\* variant: the constructor takes any table
c_extension_accepts_any(h) == TRUE

\* c_extension::c_extension, lines 159-160: throws unless the three function
\* objects made from the table are non-empty
c_extension_accepts(h) == MandatoryFuncsSet(h)

\* variant: extension_functions is looked up first, extension_object when
\* there is no table
LookedUpTableFirst(h) ==
    IF HasExtensionFunctions(h) THEN <<"extension_functions">>
    ELSE <<"extension_functions", "extension_object">>

\* lines 351-365: the symbols load_ext asks dlsym for, in order:
\* extension_functions only when extension_object is not there
LookedUp(h) ==
    IF HasExtensionObject(h) THEN <<"extension_object">>
    ELSE <<"extension_object", "extension_functions">>

\* lines 338-393: the module is opened and its extension registered
LoadOpens(path, target) ==
    LET lib == dl_ptr(target)
        h == lib.handle
        opened == AfterOpen(dlrefs, h)
        symbol == LookedUp(h)[Len(LookedUp(h))]
        extension ==
            IF h = NullHandle THEN NullExt
            ELSE IF symbol = "extension_object" /\ HasExtensionObject(h)
                 THEN NativeExt(h)
            ELSE IF /\ symbol = "extension_functions"
                    /\ HasExtensionFunctions(h) /\ c_extension_accepts(h)
                 THEN CExt(h, Len(loaded_c_extensions) + 1)
                 ELSE NullExt
    IN  /\ h # NullHandle =>
               Len(loaded_libs) < MaxLibs /\ OpenHandles(dlrefs) < MaxOpen
        /\ extension.kind = "c_extension" => Len(loaded_c_extensions) < MaxAdapters
        /\ UNCHANGED <<root_nodes, nodes, obtained, orphaned, nparses, original_nodes>>
        /\ IF h = NullHandle
           THEN \* emplace_back, pop_back, throw: the dl_ptr had no handle
                /\ last' = [Call("load", "void", "runtime_error")
                               EXCEPT !.why = "open_failed"]
                /\ UNCHANGED <<loaded_libs, loaded_extensions,
                               loaded_c_extensions, released, dlrefs, loadOrder, moved>>
           ELSE /\ dlrefs' = opened
                /\ released' = AfterMap(released, dlrefs, h)
                /\ IF extension = NullExt
                   THEN \* lines 368-379 throw and leave the dl_ptr in loaded_libs
                        /\ loaded_libs' = Append(loaded_libs, lib)
                        /\ last' = [Call("load", "void", "runtime_error")
                                       EXCEPT !.why =
                                           IF HasExtensionFunctions(h)
                                           THEN "bad_table" ELSE "no_symbol",
                                              !.pos = Len(loaded_libs) + 1,
                                              !.symbols = LookedUp(h)]
                        /\ UNCHANGED <<loaded_extensions, loaded_c_extensions,
                                       loadOrder, moved>>
                   ELSE /\ loaded_libs' =
                               Append(loaded_libs, [lib EXCEPT !.extension = extension])
                        /\ loaded_extensions' = Append(loaded_extensions, extension)
                        /\ loaded_c_extensions' =
                               IF extension.kind = "c_extension"
                               THEN Append(loaded_c_extensions, extension)
                               ELSE loaded_c_extensions
                        /\ loadOrder' =
                               IF \E i \in 1..Len(loadOrder) : loadOrder[i] = extension
                               THEN loadOrder
                               ELSE loadOrder \o <<extension>>
                        /\ UNCHANGED moved
                        /\ last' = [Call("load", "void", "none")
                                       EXCEPT !.ext = extension, !.path = path,
                                              !.handle = h,
                                              !.pos = Len(loaded_libs) + 1,
                                              !.symbols = LookedUp(h)]

Load(path) ==
    IF is_loaded(loaded_libs, path)
    THEN LoadReturns(path, "none", "already")
    ELSE IF LoadTarget(path) = ""
         THEN LoadReturns(path, "runtime_error",
                          IF exists(path) THEN "not_file" ELSE "not_found")
         ELSE LoadOpens(path, LoadTarget(path))

(***************************************************************************)
(* docview::unload_ext                                                     *)
(***************************************************************************)
\* lines 399-405: position of the first dl_ptr with this path, 0 if none
\* variant: lib_to_unload starts as the last dl_ptr instead of nullptr
FindLibOrLast(libs, path) ==
    IF \E i \in 1..Len(libs) : libs[i].path = path
    THEN CHOOSE i \in 1..Len(libs) :
             /\ libs[i].path = path
             /\ \A j \in 1..(i - 1) : libs[j].path # path
    ELSE Len(libs)

FindLib(libs, path) ==
    IF \E i \in 1..Len(libs) : libs[i].path = path
    THEN CHOOSE i \in 1..Len(libs) :
             /\ libs[i].path = path
             /\ \A j \in 1..(i - 1) : libs[j].path # path
    ELSE 0

\* variant: the root records are left in place
RemoveRootsNone(roots, ext) == roots

\* lines 412-414: erase every root record whose extension is ext
RemoveRoots(roots, ext) == SelectSeq(roots, LAMBDA r : r[2] # ext)

\* variant: the loop stops at the first occurrence
RemoveExtensionFirst(exts, ext) ==
    IF \E i \in 1..Len(exts) : exts[i] = ext
    THEN LET i == CHOOSE i \in 1..Len(exts) :
                      exts[i] = ext /\ \A j \in 1..(i - 1) : exts[j] # ext
         IN SubSeq(exts, 1, i - 1) \o SubSeq(exts, i + 1, Len(exts))
    ELSE exts

\* lines 417-419: erase every occurrence of ext
RemoveExtension(exts, ext) == SelectSeq(exts, LAMBDA e : e # ext)

\* variant: the assignment leaves out the extension
AssignedFromKeepsExtension(this, other) ==
    [handle |-> other.handle, path |-> other.path, extension |-> this.extension]

\* dl_ptr::operator=, lines 55-62: *this takes the fields of other and the
\* handle *this held is overwritten without dlclose; other gives up its handle
AssignedFrom(this, other) ==
    [handle |-> other.handle, path |-> other.path, extension |-> other.extension]

\* variant: the assignment leaves the handle with other as well
GivenUpKeepsHandle(other) == other

\* line 60: ((dl_ptr*)(void*)&other)->handle = nullptr
GivenUp(other) == [other EXCEPT !.handle = NullHandle]

\* std::vector<dl_ptr>::erase(begin + i): the elements behind i are assigned
\* one position down; the result still has the old length, its last element
\* is the one the vector destroys
RECURSIVE ShiftDown(_, _)
ShiftDown(libs, i) ==
    IF i >= Len(libs) THEN libs
    ELSE ShiftDown([libs EXCEPT ![i] = AssignedFrom(libs[i], libs[i + 1]),
                                ![i + 1] = GivenUp(libs[i + 1])], i + 1)

\* the nodes that live in the memory of module h
InModule(h) ==
    IF ModuleTreeInModule(h)
    THEN {n \in DOMAIN nodes : obtained[n] = NativeExt(h)}
    ELSE {}

Unload(path) ==
    LET i == FindLib(loaded_libs, path)
    IN  IF i = 0
        THEN /\ last' = Call("unload", "void", "none")
             /\ UNCHANGED <<loaded_libs, loaded_extensions, loaded_c_extensions,
                            root_nodes, nodes, released, dlrefs, obtained,
                            orphaned, loadOrder, moved, nparses, original_nodes>>
        ELSE LET ext == loaded_libs[i].extension
                 shifted == ShiftDown(loaded_libs, i)
                 destroyed == shifted[Len(shifted)]
                 refs == AfterDestroy(dlrefs, destroyed)
             IN  /\ root_nodes' = RemoveRoots(root_nodes, ext)
                 /\ loaded_extensions' = RemoveExtension(loaded_extensions, ext)
                 /\ loaded_libs' = SubSeq(shifted, 1, Len(shifted) - 1)
                 /\ dlrefs' = refs
                 /\ released' =
                        IF destroyed.handle # NullHandle /\ refs[destroyed.handle] = 0
                        THEN released \cup InModule(destroyed.handle)
                        ELSE released
                 /\ orphaned' = orphaned \cup
                        {n \in DOMAIN obtained : obtained[n] = ext}
                 /\ last' = [Call("unload", "void", "none")
                                EXCEPT !.ext = ext, !.pos = i, !.path = path,
                                       !.closed = destroyed.handle,
                                       !.handle = loaded_libs[i].handle]
                 /\ loadOrder' =
                        LET keep(e) == e # ext
                        IN SelectSeq(loadOrder, keep)
                 /\ moved' = (moved \cup
                        {loaded_extensions[k] : k \in
                            {k \in 1..Len(loaded_extensions) :
                                \E j \in 1..(k - 1) : loaded_extensions[j] = ext}})
                        \ {ext}
                 /\ UNCHANGED <<loaded_c_extensions, nodes, obtained, nparses,
                                original_nodes>>

(***************************************************************************)
(* docview::get_doc_tree                                                   *)
(***************************************************************************)
\* variant: the array lists the levels from huge to tiny
applicability_levels_descending == <<huge, big, medium, small, tiny>>

applicability_levels == <<tiny, small, medium, big, huge>>

Reverse(seq) == [i \in 1..Len(seq) |-> seq[Len(seq) + 1 - i]]

\* variant: the inner loop walks loaded_extensions from the back
RECURSIVE ScanOrderBackwards(_, _)
ScanOrderBackwards(exts, k) ==
    IF k > Len(applicability_levels) THEN <<>>
    ELSE SelectSeq(Reverse(exts), LAMBDA e :
             get_applicability_level(e) = applicability_levels[k])
         \o ScanOrderBackwards(exts, k + 1)

\* the order in which the two loops of lines 455-472 reach the extensions
RECURSIVE ScanOrder(_, _)
ScanOrder(exts, k) ==
    IF k > Len(applicability_levels) THEN <<>>
    ELSE SelectSeq(exts, LAMBDA e :
             get_applicability_level(e) = applicability_levels[k])
         \o ScanOrder(exts, k + 1)

\* extension->get_doc_tree(path) returns a tree
Parses(e, path) == ModuleParses(e.file, path)

\* variant: a null tree of the first extension is taken for a tree
FirstParsingOrFirst(scan, path) ==
    IF \E i \in 1..Len(scan) : Parses(scan[i], path)
    THEN CHOOSE i \in 1..Len(scan) :
             /\ Parses(scan[i], path)
             /\ \A j \in 1..(i - 1) : ~Parses(scan[j], path)
    ELSE IF scan = <<>> THEN 0 ELSE 1

\* position in scan of the first extension that returns a tree, 0 if none
FirstParsing(scan, path) ==
    IF \E i \in 1..Len(scan) : Parses(scan[i], path)
    THEN CHOOSE i \in 1..Len(scan) :
             /\ Parses(scan[i], path)
             /\ \A j \in 1..(i - 1) : ~Parses(scan[j], path)
    ELSE 0

\* variant: the loops go on after a tree was returned
InvokedAll(scan, path) == scan

\* the extensions whose get_doc_tree one call invokes, in order
Invoked(scan, path) ==
    IF FirstParsing(scan, path) = 0 THEN scan
    ELSE SubSeq(scan, 1, FirstParsing(scan, path))

\* variant: the path is resolved, and handed on without a look at whether
\* anything is there
ParseTargetUnchecked(path) ==
    IF is_symlink(path) THEN ResolveLoop(path) ELSE path

\* lines 434-452: the path handed to the extensions, "" when it throws
ParseTarget(path) ==
    IF ~exists(path) THEN ""
    ELSE IF is_symlink(path)
         THEN IF ~exists(ResolveLoop(path)) THEN "" ELSE ResolveLoop(path)
         ELSE path

\* where the tree the extension returns is: native extensions with the tree
\* in the module return the same nodes every time; the others, and
\* c_extension::build_doc_tree, allocate new nodes
TreeBase(e, path) ==
    IF e.kind = "native" /\ ModuleTreeInModule(e.file)
    THEN StaticBase(e.file, path)
    ELSE FirstHeapBase + TreeSize * nparses

\* variant: the record is pushed twice
PushRootTwice(roots, root, ext) == Append(Append(roots, <<root, ext>>), <<root, ext>>)

\* line 468
PushRoot(roots, root, ext) == Append(roots, <<root, ext>>)

Parse(path) ==
    LET target == ParseTarget(path)
        scan == ScanOrder(loaded_extensions, 1)
        w == FirstParsing(scan, target)
    IN  IF target = ""
        THEN /\ last' = [Call("parse", "throw", "runtime_error")
                            EXCEPT !.why = "not_found", !.path = path]
             /\ UNCHANGED <<loaded_libs, loaded_extensions, loaded_c_extensions,
                            root_nodes, nodes, released, dlrefs, obtained,
                            orphaned, loadOrder, moved, nparses, original_nodes>>
        ELSE IF w = 0
        THEN /\ last' = [Call("parse", "nullptr", "none")
                            EXCEPT !.calls = Invoked(scan, target)]
             /\ UNCHANGED <<loaded_libs, loaded_extensions, loaded_c_extensions,
                            root_nodes, nodes, released, dlrefs, obtained,
                            orphaned, loadOrder, moved, nparses, original_nodes>>
        ELSE LET ext == scan[w]
                 base == TreeBase(ext, target)
             IN  /\ nparses < MaxParses
                 /\ nparses' = nparses + 1
                 /\ nodes' = NewTree(base, ext) @@ nodes
                 /\ original_nodes' = NewOriginals(base, ext, target) @@ original_nodes
                 /\ obtained' = [n \in TreeNodes(base) |-> ext] @@ obtained
                 /\ orphaned' = orphaned \ TreeNodes(base)
                 /\ root_nodes' = PushRoot(root_nodes, base + 1, ext)
                 /\ last' = [Call("parse", "node", "none")
                                EXCEPT !.node = base + 1, !.ext = ext,
                                       !.path = path,
                                       !.calls = Invoked(scan, target)]
                 /\ UNCHANGED <<loaded_libs, loaded_extensions,
                                loaded_c_extensions, released, dlrefs, loadOrder, moved>>

(***************************************************************************)
(* docview::validate and docview::is_loaded as calls                       *)
(***************************************************************************)
\* the nodes validate reads: node, node->parent, ... up to the root
RECURSIVE ParentChain(_)
ParentChain(n) ==
    IF nodes[n].parent = 0 THEN {n} ELSE {n} \cup ParentChain(nodes[n].parent)

\* lines 525-527
RECURSIVE RootOf(_)
RootOf(n) == IF nodes[n].parent = 0 THEN n ELSE RootOf(nodes[n].parent)

\* lines 530-535
IsRegisteredRoot(roots, root) == \E i \in 1..Len(roots) : roots[i][1] = root

\* what validate(n) can do: reading a doc_tree_node whose memory is gone is
\* undefined, the call may return either value or end the process
ValidateOutcomes(n) ==
    IF ParentChain(n) \cap released # {}
    THEN {"true", "false", "crash"}
    ELSE IF IsRegisteredRoot(root_nodes, RootOf(n)) THEN {"true"} ELSE {"false"}

Validate(n) ==
    /\ \E r \in ValidateOutcomes(n) : last' = Call("validate", r, "none")
    /\ UNCHANGED <<loaded_libs, loaded_extensions, loaded_c_extensions,
                   root_nodes, nodes, released, dlrefs, obtained, orphaned,
                   loadOrder, moved, nparses, original_nodes>>

IsLoaded(path) ==
    /\ last' = Call("is_loaded",
                    IF is_loaded(loaded_libs, path) THEN "true" ELSE "false", "none")
    /\ UNCHANGED <<loaded_libs, loaded_extensions, loaded_c_extensions,
                   root_nodes, nodes, released, dlrefs, obtained, orphaned,
                   loadOrder, moved, nparses, original_nodes>>

(***************************************************************************)
(* docview::get_doc, brief, details and section                            *)
(***************************************************************************)
QueryOps == {"get_doc", "brief", "details", "section"}

\* variant: the extension of the first root record, whatever its root
get_extension_first_record(roots, root) ==
    IF roots = <<>> THEN NullExt ELSE roots[1][2]

\* lines 251-255: the extension of the last root record of this root,
\* nullptr if there is none
get_extension(roots, root) ==
    IF \E i \in 1..Len(roots) : roots[i][1] = root
    THEN roots[CHOOSE i \in 1..Len(roots) :
                   /\ roots[i][1] = root
                   /\ \A j \in (i + 1)..Len(roots) : roots[j][1] # root][2]
    ELSE NullExt

\* variant: the source node of the root of the tree
original_of_root(map, n) ==
    IF RootOf(n) \in DOMAIN map THEN map[RootOf(n)] ELSE NoSrc

\* original_nodes[node] of std::map: nullptr for a node that is not a key
original(map, n) == IF n \in DOMAIN map THEN map[n] ELSE NoSrc

\* variant: c_extension calls the function without looking at the pointer
c_extension_has_always(e, fn) == TRUE

\* lines 196, 206, 216: if (func_get_brief) ...
c_extension_has(e, fn) == ModuleImplements(e.file, fn)

\* the functions of the extension that extension->fn(node) runs: a native
\* extension gets the doc_tree_node, the function table of a c_extension the
\* docview_extension_doc_tree_node the node was built from; nothing of the
\* extension runs in the default methods of docview::extension (lines
\* 639-652) and behind a null pointer of the table
Dispatch(e, fn, n) ==
    IF e.kind = "native"
    THEN IF ModuleImplements(e.file, fn)
         THEN <<[ext |-> e, fn |-> fn, node |-> n, src |-> NoSrc]>>
         ELSE <<>>
    ELSE IF c_extension_has(e, fn)
         THEN <<[ext |-> e, fn |-> fn, node |-> 0, src |-> original(original_nodes, n)]>>
         ELSE <<>>

\* what the call returns: the string of the extension, or std::string()
Returned(invoked) == IF invoked = <<>> THEN "empty" ELSE "text"

\* get_extension(node)->fn(node).  The walk to the root reads the nodes of
\* the parent chain: when one of them is in released memory the behaviour is
\* undefined, the call may throw, end the process, or go on with the
\* extension of any root record
QueryOutcomes(fn, n) ==
    IF ParentChain(n) \cap released # {}
    THEN {[Call(fn, "throw", err) EXCEPT !.node = n] :
              err \in {"invalid_argument", "crash"}}
         \cup
         {[Call(fn, Returned(Dispatch(root_nodes[i][2], fn, n)), "none")
              EXCEPT !.node = n, !.ext = root_nodes[i][2],
                     !.invoked = Dispatch(root_nodes[i][2], fn, n)] :
              i \in 1..Len(root_nodes)}
    ELSE LET e == get_extension(root_nodes, RootOf(n))
         IN  IF e = NullExt
             THEN {[Call(fn, "throw", "invalid_argument") EXCEPT !.node = n]}
             ELSE {[Call(fn, Returned(Dispatch(e, fn, n)), "none")
                       EXCEPT !.node = n, !.ext = e,
                              !.invoked = Dispatch(e, fn, n)]}

Query(fn, n) ==
    /\ UNCHANGED <<loaded_libs, loaded_extensions, loaded_c_extensions,
                   root_nodes, nodes, released, dlrefs, obtained, orphaned,
                   loadOrder, moved, nparses, original_nodes>>
    /\ \E q \in QueryOutcomes(fn, n) : last' = q

(***************************************************************************)
(* docview::search                                                         *)
(***************************************************************************)
\* variant: the title or a synonym has to be equal to the query
IsMatchEqual(node, query) ==
    \/ node.title = query
    \/ \E k \in 1..Len(node.synonyms) : node.synonyms[k] = query

\* lines 272-286: the title or one of the synonyms starts with the query
IsMatch(node, query) ==
    \/ substr(node.title, Len(query)) = query
    \/ \E k \in 1..Len(node.synonyms) :
           substr(node.synonyms[k], Len(query)) = query

\* search_node: the node if it matches, then the matches below each child
RECURSIVE search_node(_, _)
RECURSIVE search_children(_, _, _)
search_children(children, k, query) ==
    IF k > Len(children) THEN <<>>
    ELSE search_node(children[k], query) \o search_children(children, k + 1, query)
search_node(n, query) ==
    (IF IsMatch(nodes[n], query) THEN <<n>> ELSE <<>>)
        \o search_children(nodes[n].children, 1, query)

\* lines 512-516: the matches of every root record, in order
RECURSIVE search(_, _, _)
search(roots, k, query) ==
    IF k > Len(roots) THEN <<>>
    ELSE search_node(roots[k][1], query) \o search(roots, k + 1, query)

Search(query) ==
    /\ last' = [Call("search", "nodes", "none")
                   EXCEPT !.query = query, !.found = search(root_nodes, 1, query)]
    /\ UNCHANGED <<loaded_libs, loaded_extensions, loaded_c_extensions,
                   root_nodes, nodes, released, dlrefs, obtained, orphaned,
                   loadOrder, moved, nparses, original_nodes>>

(***************************************************************************)
(* The end of the process: the static objects of lines 222-232 are         *)
(* destroyed in the reverse order of their definitions, root_nodes first,  *)
(* then loaded_c_extensions, loaded_extensions and loaded_libs.            *)
(***************************************************************************)
RECURSIVE free_node(_)
RECURSIVE free_children(_, _)
\* lines 137-140: for (auto child : node->children) free_node(child);
free_children(children, k) ==
    IF k > Len(children) THEN <<>>
    ELSE free_node(children[k]) \o free_children(children, k + 1)

\* variant: the node is deleted before its children
free_node_parent_first(n) == <<n>> \o free_children(nodes[n].children, 1)

\* c_extension::free_node: the nodes in the order of their delete
free_node(n) == free_children(nodes[n].children, 1) \o <<n>>

\* c_extension::root_nodes of e (line 117): the roots build_doc_tree made
\* for e, in the order of their allocation
c_extension_root_nodes(e) ==
    {n \in DOMAIN original_nodes : obtained[n] = e /\ nodes[n].parent = 0}

\* c_extension::~c_extension: free_node of every root, in order
RECURSIVE free_roots(_)
free_roots(roots) ==
    IF roots = {} THEN <<>>
    ELSE LET r == CHOOSE x \in roots : \A y \in roots : x <= y
         IN free_node(r) \o free_roots(roots \ {r})

\* ~vector of loaded_c_extensions: the last shared_ptr of every c_extension
RECURSIVE destroy_c_extensions(_, _)
destroy_c_extensions(exts, k) ==
    IF k > Len(exts) THEN <<>>
    ELSE free_roots(c_extension_root_nodes(exts[k]))
             \o destroy_c_extensions(exts, k + 1)

\* ~vector of loaded_libs: ~dl_ptr of every element
RECURSIVE destroy_libs(_, _, _)
destroy_libs(refs, libs, k) ==
    IF k > Len(libs) THEN refs
    ELSE destroy_libs(AfterDestroy(refs, libs[k]), libs, k + 1)

Exit ==
    LET freed == destroy_c_extensions(loaded_c_extensions, 1)
        refs == destroy_libs(dlrefs, loaded_libs, 1)
    IN  /\ root_nodes' = <<>>
        /\ loaded_c_extensions' = <<>>
        /\ loaded_extensions' = <<>>
        /\ loaded_libs' = <<>>
        /\ dlrefs' = refs
        /\ released' = released
               \cup {freed[k] : k \in 1..Len(freed)}
               \cup UNION {InModule(h) : h \in {x \in DOMAIN refs :
                                                   dlrefs[x] > 0 /\ refs[x] = 0}}
        /\ last' = [Call("exit", "void", "none") EXCEPT !.freed = freed]
        /\ loadOrder' = <<>>
        /\ moved' = {}
        /\ UNCHANGED <<nodes, obtained, orphaned, nparses, original_nodes>>

Next ==
    \/ \E path \in ExtPaths : Load(path) /\ UNCHANGED gui
    \/ \E path \in ExtPaths : Unload(path) /\ UNCHANGED gui
    \/ \E path \in ParsePaths : Parse(path) /\ UNCHANGED gui
    \/ \E n \in DOMAIN nodes : Validate(n) /\ UNCHANGED gui
    \/ \E path \in ExtPaths : IsLoaded(path) /\ UNCHANGED gui

Spec == Init /\ [][Next]_vars

\* the registry with the calls that go to the extension of a node, called
\* with the paths of the extension modules and of the documents
NextQuery ==
    \/ \E path \in ModulePaths : Load(path) /\ UNCHANGED gui
    \/ \E path \in ModulePaths : Unload(path) /\ UNCHANGED gui
    \/ \E path \in DocPaths : Parse(path) /\ UNCHANGED gui
    \/ \E fn \in QueryOps : \E n \in DOMAIN nodes : Query(fn, n) /\ UNCHANGED gui

SpecQuery == Init /\ [][NextQuery]_vars

\* the registry with search
NextSearch ==
    \/ \E path \in ExtPaths : Load(path) /\ UNCHANGED gui
    \/ \E path \in ExtPaths : Unload(path) /\ UNCHANGED gui
    \/ \E path \in DocPaths \cup {"gone"} : Parse(path) /\ UNCHANGED gui
    \/ \E query \in Queries : Search(query) /\ UNCHANGED gui

SpecSearch == Init /\ [][NextSearch]_vars

\* the registry called with modules of every make: with and without each of
\* the two symbols, with a complete and an incomplete function table
NextLoad ==
    \/ \E path \in LoadPaths : Load(path) /\ UNCHANGED gui
    \/ \E path \in LoadPaths : Unload(path) /\ UNCHANGED gui
    \/ \E path \in DocPaths : Parse(path) /\ UNCHANGED gui
    \/ \E path \in LoadPaths : IsLoaded(path) /\ UNCHANGED gui

SpecLoad == Init /\ [][NextLoad]_vars

\* the registry with every function of the API
NextApi ==
    \/ \E path \in ApiPaths : Load(path) /\ UNCHANGED gui
    \/ \E path \in ApiPaths : Unload(path) /\ UNCHANGED gui
    \/ \E path \in DocPaths : Parse(path) /\ UNCHANGED gui
    \/ \E fn \in QueryOps : \E n \in DOMAIN nodes : Query(fn, n) /\ UNCHANGED gui
    \/ \E query \in Queries : Search(query) /\ UNCHANGED gui
    \/ \E n \in DOMAIN nodes : Validate(n) /\ UNCHANGED gui
    \/ \E path \in ApiPaths : IsLoaded(path) /\ UNCHANGED gui

SpecApi == Init /\ [][NextApi]_vars

\* the registry up to the end of the process; nothing is called after it
NextExit ==
    \/ /\ last.op # "exit"
       /\ \/ \E path \in ExitPaths : Load(path) /\ UNCHANGED gui
          \/ \E path \in ExitPaths : Unload(path) /\ UNCHANGED gui
          \/ \E path \in DocPaths : Parse(path) /\ UNCHANGED gui
    \/ last.op # "exit" /\ Exit /\ UNCHANGED gui

SpecExit == Init /\ [][NextExit]_vars

(***************************************************************************)
(* The C bindings (extern "C" functions of libdocview.cpp).  A C string is *)
(* the sequence of the bytes of its buffer, an array the sequence of its   *)
(* elements; the null pointer is 0.                                        *)
(***************************************************************************)
NUL == "NUL"

\* what a byte of a new char[] that nothing was written to can hold: the NUL
\* byte or any other value
IndeterminateByte == {NUL, "?"}

\* lines 235-240: size + 1 bytes are allocated, size bytes are copied, and
\* the buffers the call can hand out differ in the byte behind them
c_str(string) == {string \o <<b>> : b \in IndeterminateByte}

\* the std::string behind the result of get_doc, brief, details and section
StringOf(ret) == IF ret = "text" THEN <<"d", "o", "c">> ELSE <<>>

CName(fn) ==
    CASE fn = "get_doc" -> "docview_get_doc"
      [] fn = "brief" -> "docview_get_brief"
      [] fn = "details" -> "docview_get_details"
      [] fn = "section" -> "docview_get_section"

\* lines 544-563: docview_get_doc, docview_get_brief, docview_get_details and
\* docview_get_section hand out c_str of what the C++ function returned
docview_get(fn, n) ==
    /\ UNCHANGED <<loaded_libs, loaded_extensions, loaded_c_extensions,
                   root_nodes, nodes, released, dlrefs, obtained, orphaned,
                   loadOrder, moved, nparses, original_nodes>>
    /\ \E q \in QueryOutcomes(fn, n) :
           IF q.ret = "throw"
           THEN last' = [q EXCEPT !.op = CName(fn)]
           ELSE \E buf \in c_str(StringOf(q.ret)) :
                    last' = [q EXCEPT !.op = CName(fn), !.result = buf]

\* lines 565-583
docview_search(query) ==
    /\ last' = [Call("docview_search", "array", "none")
                   EXCEPT !.query = query,
                          !.result = search(root_nodes, 1, query) \o <<0>>]
    /\ UNCHANGED <<loaded_libs, loaded_extensions, loaded_c_extensions,
                   root_nodes, nodes, released, dlrefs, obtained, orphaned,
                   loadOrder, moved, nparses, original_nodes>>

\* lines 595-598; the read of a node in released memory is undefined, the
\* call may end the process or hand out what is left of the title
docview_doc_tree_node_title(n) ==
    /\ \/ \E buf \in c_str(nodes[n].title) :
              last' = [Call("docview_doc_tree_node_title", "string", "none")
                          EXCEPT !.node = n, !.result = buf]
       \/ /\ n \in released
          /\ last' = [Call("docview_doc_tree_node_title", "throw", "crash")
                         EXCEPT !.node = n]
    /\ UNCHANGED <<loaded_libs, loaded_extensions, loaded_c_extensions,
                   root_nodes, nodes, released, dlrefs, obtained, orphaned,
                   loadOrder, moved, nparses, original_nodes>>

\* lines 600-614: one c_str per synonym, then the null pointer
docview_doc_tree_node_synonyms(n) ==
    /\ \/ \E bytes \in [1..Len(nodes[n].synonyms) -> IndeterminateByte] :
              last' = [Call("docview_doc_tree_node_synonyms", "array", "none")
                          EXCEPT !.node = n,
                                 !.result =
                                     [k \in 1..Len(nodes[n].synonyms) |->
                                         nodes[n].synonyms[k] \o <<bytes[k]>>]
                                     \o <<0>>]
       \/ /\ n \in released
          /\ last' = [Call("docview_doc_tree_node_synonyms", "throw", "crash")
                         EXCEPT !.node = n]
    /\ UNCHANGED <<loaded_libs, loaded_extensions, loaded_c_extensions,
                   root_nodes, nodes, released, dlrefs, obtained, orphaned,
                   loadOrder, moved, nparses, original_nodes>>

\* lines 616-632
docview_doc_tree_node_children(n) ==
    /\ \/ last' = [Call("docview_doc_tree_node_children", "array", "none")
                      EXCEPT !.node = n, !.result = nodes[n].children \o <<0>>]
       \/ /\ n \in released
          /\ last' = [Call("docview_doc_tree_node_children", "throw", "crash")
                         EXCEPT !.node = n]
    /\ UNCHANGED <<loaded_libs, loaded_extensions, loaded_c_extensions,
                   root_nodes, nodes, released, dlrefs, obtained, orphaned,
                   loadOrder, moved, nparses, original_nodes>>

\* the paths of the modules in a run through the C bindings
CPaths == {"a.so", "b.so"}

\* the registry called through the C bindings
NextC ==
    \/ \E path \in CPaths : Load(path) /\ UNCHANGED gui
    \/ \E path \in CPaths : Unload(path) /\ UNCHANGED gui
    \/ \E path \in DocPaths : Parse(path) /\ UNCHANGED gui
    \/ \E fn \in QueryOps : \E n \in DOMAIN nodes : docview_get(fn, n) /\ UNCHANGED gui
    \/ \E query \in Queries : docview_search(query) /\ UNCHANGED gui
    \/ \E n \in DOMAIN nodes : docview_doc_tree_node_title(n) /\ UNCHANGED gui
    \/ \E n \in DOMAIN nodes : docview_doc_tree_node_synonyms(n) /\ UNCHANGED gui
    \/ \E n \in DOMAIN nodes : docview_doc_tree_node_children(n) /\ UNCHANGED gui

SpecC == Init /\ [][NextC]_vars

(***************************************************************************)
(* The tabs of the shell (src/src/docview.cpp).  A tab is the web view     *)
(* on_tab_added creates, named by the value of tab_num at its creation.    *)
(* The first tab is made by the call of on_tab_added in main, before the   *)
(* window is shown.                                                        *)
(***************************************************************************)
\* the widgets in a vector
Range(seq) == {seq[i] : i \in 1..Len(seq)}

\* variant: the window is closed only when no tab is there
no_tab_would_be_left_when_empty(t) == Len(t) = 0

\* line 540, tabs.size() - 1 == 0: the difference is unsigned, that of an
\* empty vector is the largest value and not 0 either
no_tab_would_be_left(t) == Len(t) - 1 = 0

\* lines 550-559: every entry equal to tab_to_close is erased
erase_tab(t, tab_to_close) == SelectSeq(t, LAMBDA w : w # tab_to_close)

\* lines 494-533
on_tab_added ==
    /\ ~window_hidden
    /\ tab_num < MaxTabs
    /\ tab_num' = tab_num + 1
    /\ visible_child' = tab_num + 1
    /\ title_visible_child' =
           IF Len(tabs) >= 1 THEN "tab_switcher" ELSE title_visible_child
    /\ tabs' = Append(tabs, tab_num + 1)
    /\ UNCHANGED window_hidden

\* lines 536-569.  Gtk::Stack::remove of the visible child makes another
\* child of the stack the visible one
on_tab_closed ==
    /\ ~window_hidden
    /\ IF no_tab_would_be_left(tabs)
       THEN /\ window_hidden' = TRUE
            /\ UNCHANGED <<tabs, tab_num, visible_child, title_visible_child>>
       ELSE LET tab_to_close == visible_child
                left == erase_tab(tabs, tab_to_close)
            IN  /\ tabs' = left
                /\ IF left = tabs
                   THEN visible_child' = visible_child
                   ELSE visible_child' \in Range(left) \cup
                            (IF left = <<>> THEN {0} ELSE {})
                /\ title_visible_child' =
                       IF Len(left) = 1 THEN "title_label" ELSE title_visible_child
                /\ UNCHANGED <<tab_num, window_hidden>>

\* a click on a button of the Gtk::StackSwitcher "tabs" (line 266) while the
\* title shows it: the stack shows that tab
on_tab_switched(t) ==
    /\ ~window_hidden
    /\ title_visible_child = "tab_switcher"
    /\ t \in Range(tabs)
    /\ t # visible_child
    /\ visible_child' = t
    /\ UNCHANGED <<tabs, tab_num, title_visible_child, window_hidden>>

\* the shell with its tab buttons; the registry is not called
NextTabs ==
    \/ on_tab_added /\ UNCHANGED <<registry, sidebar>>
    \/ on_tab_closed /\ UNCHANGED <<registry, sidebar>>
    \/ \E t \in 1..MaxTabs : on_tab_switched(t) /\ UNCHANGED <<registry, sidebar>>

SpecTabs == Init /\ [][NextTabs]_vars

(***************************************************************************)
(* The sidebar and the preferences of the shell (src/src/docview.cpp).     *)
(* The handlers run on the one thread of the main loop, one at a time;     *)
(* pending holds what the running handler has still to do, <<>> when no    *)
(* handler runs.  The extension search path names a directory with the     *)
(* files of ShellExtensions, the documentation search path a directory     *)
(* with the files of ShellDocuments.                                       *)
(***************************************************************************)
ShellExtensions == <<"a.so", "b.so", "bad.so">>
ShellDocuments == <<"d1">>

\* the widgets that take the input focus
FocusWidgets ==
    {"preferences_documentation_search_path", "preferences_extension_search_path",
     "preferences_extension_list", "search_entry", "sidebar_tree"}

\* the queries typed into the search entry
ShellQueries == {<<>>, <<"a", "b", "c">>}

\* preferences_max_search_results: 500 unless the configuration says otherwise
preferences_max_search_results == 500

\* one step of a handler
Item(call, path, from) == [call |-> call, path |-> path, from |-> from]

\* lines 1118-1128: the node of the row, then the rows of its children
RECURSIVE build_tree(_, _)
RECURSIVE build_children(_, _, _)
build_children(mem, children, k) ==
    IF k > Len(children) THEN <<>>
    ELSE build_tree(mem, children[k]) \o build_children(mem, children, k + 1)
build_tree(mem, n) == <<n>> \o build_children(mem, mem[n].children, 1)

\* docview::search(query, document_roots) of docview.hpp: the matches in the
\* trees of the given roots
search_in(query, document_roots) == search(document_roots, 1, query)

\* lines 687-700: at most preferences_max_search_results rows
FirstRows(matches) ==
    SubSeq(matches, 1, IF Len(matches) < preferences_max_search_results
                       THEN Len(matches) ELSE preferences_max_search_results)

\* lines 889-896: the first entry equal to path is erased
EraseFirst(seq, path) ==
    IF \E i \in 1..Len(seq) : seq[i] = path
    THEN LET i == CHOOSE i \in 1..Len(seq) :
                      seq[i] = path /\ \A j \in 1..(i - 1) : seq[j] # path
         IN SubSeq(seq, 1, i - 1) \o SubSeq(seq, i + 1, Len(seq))
    ELSE seq

\* lines 740-765: get_doc_tree of every file of the directory, then the
\* sidebar is shown
RefreshItems ==
    [k \in 1..Len(ShellDocuments) |-> Item("get_doc_tree", ShellDocuments[k], "refresh")]
        \o <<Item("set_model", "", "refresh")>>

\* variant: the handler ends without the call of line 901
ToggledItemsWithoutRefresh(row) ==
    IF row.enabled
    THEN <<Item("load_ext", row.path, "toggled")>>
    ELSE <<Item("unload_ext", row.path, "toggled")>>

\* lines 881-901: load_ext or unload_ext of the row, then the call of
\* on_preferences_documentation_search_path_unfocused
ToggledItems(row) ==
    IF row.enabled
    THEN <<Item("load_ext", row.path, "toggled"),
           Item("on_preferences_documentation_search_path_unfocused", "", "toggled")>>
    ELSE <<Item("unload_ext", row.path, "toggled"),
           Item("on_preferences_documentation_search_path_unfocused", "", "toggled")>>

\* lines 934-989: unload_ext of every loaded extension, the list made anew
\* with load_ext of every enabled file, then the call of
\* on_preferences_documentation_search_path_unfocused
SearchPathItems(loaded, enabled) ==
    [k \in 1..Len(loaded) |-> Item("unload_ext", loaded[k], "search_path")]
        \o <<Item("loaded_extensions.clear", "", "search_path")>>
        \o [k \in 1..Len(ShellExtensions) |->
                Item(IF ShellExtensions[k] \in enabled THEN "load_ext" ELSE "append",
                     ShellExtensions[k], "search_path")]
        \o <<Item("on_preferences_documentation_search_path_unfocused", "",
                  "search_path")>>

\* line 1153: main calls on_preferences_extension_search_path_unfocused
\* before the window is shown; no widget has the focus; the configuration
\* file has any of the extensions enabled
main(enabled) ==
    /\ has_focus = "startup"
    /\ has_focus' = "none"
    /\ config_enabled' = enabled
    /\ extension_list_contents' = <<>>
    /\ pending' = SearchPathItems(shell_loaded_extensions, enabled)
    /\ UNCHANGED <<document_root_nodes, sidebar_contents, sidebar_search_results,
                   sidebar_model, search_text, shell_loaded_extensions>>
    /\ UNCHANGED <<registry, tabbar>>

\* the widget that has the focus loses it: the text views notify has_focus
\* (lines 1088, 1103) and their handlers run with has_focus false
focus_out ==
    /\ pending = <<>>
    /\ has_focus \in FocusWidgets
    /\ has_focus' = "none"
    /\ IF has_focus = "preferences_documentation_search_path"
       THEN /\ pending' =
                  <<Item("on_preferences_documentation_search_path_unfocused", "",
                         "focus")>>
            /\ UNCHANGED extension_list_contents
       ELSE IF has_focus = "preferences_extension_search_path"
       THEN /\ pending' = SearchPathItems(shell_loaded_extensions, config_enabled)
            /\ extension_list_contents' = <<>>
       ELSE UNCHANGED <<pending, extension_list_contents>>
    /\ UNCHANGED <<document_root_nodes, sidebar_contents, sidebar_search_results,
                   sidebar_model, search_text, shell_loaded_extensions,
                   config_enabled>>
    /\ UNCHANGED <<registry, tabbar>>

\* a widget gets the focus; the handler of a text view returns at once, its
\* has_focus is true (lines 716, 917)
focus_in(w) ==
    /\ pending = <<>>
    /\ has_focus = "none"
    /\ has_focus' = w
    /\ UNCHANGED <<document_root_nodes, sidebar_contents, sidebar_search_results,
                   sidebar_model, search_text, shell_loaded_extensions,
                   extension_list_contents, config_enabled, pending>>
    /\ UNCHANGED <<registry, tabbar>>

\* the check box of a row of the extension list is clicked (line 1140)
extension_list_column_enabled_edited(i) ==
    /\ pending = <<>>
    /\ has_focus = "preferences_extension_list"
    /\ i \in 1..Len(extension_list_contents)
    /\ extension_list_contents' =
           [extension_list_contents EXCEPT ![i].enabled = ~@]
    /\ UNCHANGED <<document_root_nodes, sidebar_contents, sidebar_search_results,
                   sidebar_model, search_text, shell_loaded_extensions,
                   config_enabled, has_focus, pending>>
    /\ UNCHANGED <<registry, tabbar>>

\* lines 859-902, up to the first call into the library
on_preferences_extension_enable_toggled(i) ==
    /\ pending = <<>>
    /\ has_focus = "preferences_extension_list"
    /\ i \in 1..Len(extension_list_contents)
    /\ config_enabled' =
           IF extension_list_contents[i].enabled
           THEN config_enabled \cup {extension_list_contents[i].path}
           ELSE config_enabled \ {extension_list_contents[i].path}
    /\ pending' = ToggledItems(extension_list_contents[i])
    /\ UNCHANGED <<document_root_nodes, sidebar_contents, sidebar_search_results,
                   sidebar_model, search_text, shell_loaded_extensions,
                   extension_list_contents, has_focus>>
    /\ UNCHANGED <<registry, tabbar>>

\* lines 664-703
on_search_changed(text) ==
    /\ pending = <<>>
    /\ has_focus = "search_entry"
    /\ text # search_text
    /\ search_text' = text
    /\ IF text = <<>>
       THEN /\ sidebar_model' = "sidebar_contents"
            /\ UNCHANGED sidebar_search_results
       ELSE /\ sidebar_model' = "sidebar_search_results"
            /\ sidebar_search_results' =
                   FirstRows(search_in(text, document_root_nodes))
    /\ UNCHANGED <<document_root_nodes, sidebar_contents, shell_loaded_extensions,
                   extension_list_contents, config_enabled, has_focus, pending>>
    /\ UNCHANGED <<registry, tabbar>>

\* the nodes in the rows of the model the sidebar shows
ShownNodes ==
    IF sidebar_model = "sidebar_contents"
    THEN Range(sidebar_contents) ELSE Range(sidebar_search_results)

\* lines 423-440: get_doc of the node of the row
on_sidebar_option_selected(n) ==
    /\ pending = <<>>
    /\ has_focus = "sidebar_tree"
    /\ n \in ShownNodes
    /\ Query("get_doc", n)
    /\ UNCHANGED <<tabbar, sidebar>>

\* the next call of the running handler
handler_step ==
    /\ pending # <<>>
    /\ LET c == Head(pending)
       IN  CASE c.call = "unload_ext" ->
                 \* lines 888-896 and 938-941
                 /\ Unload(c.path)
                 /\ shell_loaded_extensions' =
                        IF c.from = "toggled"
                        THEN EraseFirst(shell_loaded_extensions, c.path)
                        ELSE shell_loaded_extensions
                 /\ pending' = Tail(pending)
                 /\ UNCHANGED <<document_root_nodes, sidebar_contents,
                                sidebar_search_results, sidebar_model, search_text,
                                extension_list_contents, config_enabled, has_focus>>
             [] c.call = "loaded_extensions.clear" ->
                 \* line 942
                 /\ shell_loaded_extensions' = <<>>
                 /\ pending' = Tail(pending)
                 /\ UNCHANGED <<document_root_nodes, sidebar_contents,
                                sidebar_search_results, sidebar_model, search_text,
                                extension_list_contents, config_enabled, has_focus>>
                 /\ UNCHANGED registry
             [] c.call = "append" ->
                 \* lines 955-964, a file that is not enabled
                 /\ extension_list_contents' =
                        Append(extension_list_contents,
                               [path |-> c.path, enabled |-> FALSE])
                 /\ pending' = Tail(pending)
                 /\ UNCHANGED <<document_root_nodes, sidebar_contents,
                                sidebar_search_results, sidebar_model, search_text,
                                shell_loaded_extensions, config_enabled, has_focus>>
                 /\ UNCHANGED registry
             [] c.call = "load_ext" ->
                 \* lines 883-884: an exception ends the handler; lines
                 \* 955-984: the row is appended, std::runtime_error is caught
                 /\ Load(c.path)
                 /\ IF last'.err # "none"
                    THEN IF c.from = "toggled"
                         THEN /\ pending' = <<>>
                              /\ UNCHANGED <<shell_loaded_extensions,
                                             extension_list_contents, config_enabled>>
                         ELSE /\ pending' = Tail(pending)
                              /\ extension_list_contents' =
                                     Append(extension_list_contents,
                                            [path |-> c.path, enabled |-> FALSE])
                              /\ config_enabled' = config_enabled \ {c.path}
                              /\ UNCHANGED shell_loaded_extensions
                    ELSE /\ Len(shell_loaded_extensions) < MaxShellLoaded
                         /\ pending' = Tail(pending)
                         /\ shell_loaded_extensions' =
                                Append(shell_loaded_extensions, c.path)
                         /\ extension_list_contents' =
                                IF c.from = "toggled" THEN extension_list_contents
                                ELSE Append(extension_list_contents,
                                            [path |-> c.path, enabled |-> TRUE])
                         /\ UNCHANGED config_enabled
                 /\ UNCHANGED <<document_root_nodes, sidebar_contents,
                                sidebar_search_results, sidebar_model, search_text,
                                has_focus>>
             [] c.call = "on_preferences_documentation_search_path_unfocused" ->
                 \* lines 716-737
                 /\ IF has_focus = "preferences_documentation_search_path"
                    THEN /\ pending' = Tail(pending)
                         /\ UNCHANGED <<sidebar_contents, document_root_nodes>>
                    ELSE /\ sidebar_contents' = <<>>
                         /\ document_root_nodes' = <<>>
                         /\ pending' = RefreshItems \o Tail(pending)
                 /\ UNCHANGED <<sidebar_search_results, sidebar_model, search_text,
                                shell_loaded_extensions, extension_list_contents,
                                config_enabled, has_focus>>
                 /\ UNCHANGED registry
             [] c.call = "get_doc_tree" ->
                 \* lines 750-759
                 /\ Parse(c.path)
                 /\ IF last'.ret = "node"
                    THEN /\ document_root_nodes' =
                                Append(document_root_nodes, <<last'.node, c.path>>)
                         /\ sidebar_contents' =
                                sidebar_contents \o build_tree(nodes', last'.node)
                    ELSE UNCHANGED <<document_root_nodes, sidebar_contents>>
                 /\ pending' = Tail(pending)
                 /\ UNCHANGED <<sidebar_search_results, sidebar_model, search_text,
                                shell_loaded_extensions, extension_list_contents,
                                config_enabled, has_focus>>
             [] c.call = "set_model" ->
                 \* lines 764-765; set_text makes on_search_changed run, which
                 \* sets the same model
                 /\ sidebar_model' = "sidebar_contents"
                 /\ search_text' = <<>>
                 /\ pending' = Tail(pending)
                 /\ UNCHANGED <<document_root_nodes, sidebar_contents,
                                sidebar_search_results, shell_loaded_extensions,
                                extension_list_contents, config_enabled, has_focus>>
                 /\ UNCHANGED registry
    /\ UNCHANGED tabbar

\* the shell with its sidebar and its preferences dialog
NextShell ==
    \/ \E enabled \in SUBSET Range(ShellExtensions) : main(enabled)
    \/ focus_out
    \/ \E w \in FocusWidgets : focus_in(w)
    \/ \E i \in 1..Len(ShellExtensions) : extension_list_column_enabled_edited(i)
    \/ \E i \in 1..Len(ShellExtensions) : on_preferences_extension_enable_toggled(i)
    \/ \E text \in ShellQueries : on_search_changed(text)
    \/ \E n \in DOMAIN nodes : on_sidebar_option_selected(n)
    \/ handler_step

SpecShell == Init /\ [][NextShell]_vars

(***************************************************************************)
(* Properties                                                              *)
(***************************************************************************)
\* the extensions get_doc_tree goes through
ActiveSet == {loaded_extensions[i] : i \in 1..Len(loaded_extensions)}

\* index of the first occurrence of e in seq
Pos(seq, e) ==
    CHOOSE i \in 1..Len(seq) : seq[i] = e /\ \A j \in 1..(i - 1) : seq[j] # e

\* the nodes reachable from n through children
RECURSIVE Subtree(_)
Subtree(n) ==
    {n} \cup UNION {Subtree(nodes[n].children[i]) :
                        i \in 1..Len(nodes[n].children)}

\* number of dl_ptr objects in libs with this path
EntryCount(libs, path) == Cardinality({i \in 1..Len(libs) : libs[i].path = path})

\* number of dl_ptr objects in libs that were opened from this file
EntriesOfFile(libs, file) ==
    Cardinality({i \in 1..Len(libs) : Final(libs[i].path) = file})

\* a path load_ext is able to load
ValidModulePath(p) ==
    /\ exists(p)
    /\ is_regular_file(p)
    /\ dlopen(p) # NullHandle
    /\ \/ HasExtensionObject(dlopen(p))
       \/ HasExtensionFunctions(dlopen(p)) /\ MandatoryFuncsSet(dlopen(p))

\* the last call was an unload_ext that found its path
Unloaded == last.op = "unload" /\ last.pos > 0

\* the last call was a get_doc_tree that returned a tree
Parsed == last.op = "parse" /\ last.ret = "node"

\* C1: after unload_ext of a loaded extension validate returns false for
\* every node of every tree get_doc_tree obtained from it, and true for every
\* node of a tree whose extension has not been unloaded since
C1_UnloadInvalidatesItsNodes ==
    Unloaded =>
        /\ \A n \in DOMAIN obtained :
               obtained[n] = last.ext => ValidateOutcomes(n) = {"false"}
        /\ \A m \in DOMAIN obtained \ orphaned : ValidateOutcomes(m) = {"true"}

\* C2: the extension of every root record is in loaded_extensions and belongs
\* to a dl_ptr of loaded_libs whose handle is open, a c_extension among them is
\* kept in loaded_c_extensions, and no node under a registered root is in
\* memory that was given back
C2_RootRecordsAreBacked ==
    \A i \in 1..Len(root_nodes) :
        LET root == root_nodes[i][1]
            ext == root_nodes[i][2]
        IN  /\ ext \in ActiveSet
            /\ \E j \in 1..Len(loaded_libs) :
                   /\ loaded_libs[j].extension = ext
                   /\ loaded_libs[j].handle # NullHandle
                   /\ dlrefs[loaded_libs[j].handle] > 0
            /\ ext.kind = "c_extension" =>
                   \E k \in 1..Len(loaded_c_extensions) : loaded_c_extensions[k] = ext
            /\ Subtree(root) \cap released = {}

\* an unload_ext has closed a module while the tree of another extension
\* stays registered
C2_Witness ==
    /\ Unloaded
    /\ last.closed # NullHandle
    /\ dlrefs[last.closed] = 0
    /\ root_nodes # <<>>

\* C3: the extension whose tree get_doc_tree returns has the lowest
\* applicability level of the active extensions that return a tree for the
\* path, and the root record names it
C3_LowestLevelWins ==
    Parsed =>
        /\ \A e \in ActiveSet :
               Parses(e, ParseTarget(last.path)) =>
                   get_applicability_level(last.ext) <= get_applicability_level(e)
        /\ root_nodes[Len(root_nodes)][2] = last.ext

\* the winner was loaded after an extension of a higher level that parses the
\* path too
C3_Witness ==
    /\ Parsed
    /\ \E e \in ActiveSet :
           /\ Parses(e, ParseTarget(last.path))
           /\ get_applicability_level(e) > get_applicability_level(last.ext)
           /\ Pos(loadOrder, e) < Pos(loadOrder, last.ext)

\* C4: of the active extensions of one applicability level that return a tree
\* for the path, get_doc_tree returns the tree of the one loaded first
C4_EarliestLoadedWins ==
    Parsed =>
        \A e \in ActiveSet :
            /\ Parses(e, ParseTarget(last.path))
            /\ get_applicability_level(e) = get_applicability_level(last.ext)
            => Pos(loadOrder, last.ext) <= Pos(loadOrder, e)

\* two extensions of one level parse the path, and the winner has been moved
\* down in loaded_extensions by the unload of an extension loaded before it
C4_Witness ==
    /\ Parsed
    /\ last.ext \in moved
    /\ \E e \in ActiveSet :
           /\ e # last.ext
           /\ Parses(e, ParseTarget(last.path))
           /\ get_applicability_level(e) = get_applicability_level(last.ext)

\* C5: a get_doc_tree call that returns a tree invoked the winner last, every
\* extension invoked before it returned nullptr, one root record (returned
\* root, winner) was appended and nothing else changed in root_nodes
C5_FirstTreeEndsTheCall ==
    [][(last'.op = "parse" /\ last'.ret = "node") =>
          /\ last'.calls # <<>>
          /\ last'.calls[Len(last'.calls)] = last'.ext
          /\ \A i \in 1..(Len(last'.calls) - 1) :
                 ~Parses(last'.calls[i], ParseTarget(last'.path))
          /\ last'.node # 0
          /\ root_nodes' = Append(root_nodes, <<last'.node, last'.ext>>)]_vars

\* a tree was returned while an active extension was never asked, with a
\* root record already there
C5_Witness ==
    /\ Parsed
    /\ Len(last.calls) < Len(loaded_extensions)
    /\ Len(root_nodes) >= 2

\* C6: an unload_ext that found its path has closed the handle the dl_ptr of
\* that path held, wherever the dl_ptr stood in loaded_libs
C6_UnloadClosesTheHandle ==
    Unloaded => (last.handle # NullHandle /\ last.closed = last.handle)

\* C7: every dl_ptr of loaded_libs has a non-null extension that is in
\* loaded_extensions, and loaded_extensions has one element per dl_ptr
C7_RegistryAndActiveSetAgree ==
    /\ \A i \in 1..Len(loaded_libs) :
           /\ loaded_libs[i].extension # NullExt
           /\ loaded_libs[i].extension \in ActiveSet
    /\ Len(loaded_extensions) = Len(loaded_libs)

\* C8: load_ext of a valid module path that is not loaded succeeds, is_loaded
\* is true afterwards, loaded_libs has one dl_ptr with that path and its
\* extension was appended to loaded_extensions; load_ext of a loaded path
\* changes nothing
C8_LoadThenLoadedAndLoadAgainNoOp ==
    [][last'.op = "load" => \A p \in ExtPaths :
          Load(p) =>
              IF EntryCount(loaded_libs, p) > 0
              THEN /\ last'.err = "none"
                   /\ UNCHANGED <<loaded_libs, loaded_extensions,
                                  loaded_c_extensions, root_nodes, dlrefs>>
              ELSE ValidModulePath(p) =>
                       /\ last'.err = "none"
                       /\ is_loaded(loaded_libs', p)
                       /\ EntryCount(loaded_libs', p) = 1
                       /\ Len(loaded_libs') = Len(loaded_libs) + 1
                       /\ loaded_libs'[Len(loaded_libs')].extension # NullExt
                       /\ loaded_extensions' =
                              Append(loaded_extensions,
                                     loaded_libs'[Len(loaded_libs')].extension)]_vars

\* load_ext returned without doing anything because the path, a symbolic
\* link, was loaded, and its dl_ptr and extension are the only ones
C8_Witness ==
    /\ last.op = "load"
    /\ last.why = "already"
    /\ Len(loaded_libs) = 1
    /\ Len(loaded_extensions) = 1
    /\ is_symlink(loaded_libs[1].path)

\* C9: when a symbolic link and the regular file it leads to have both been
\* loaded, loaded_libs holds one dl_ptr for that module
C9_OneEntryPerCanonicalPath ==
    \A s \in ExtPaths :
        (/\ is_symlink(s)
         /\ is_regular_file(s)
         /\ is_loaded(loaded_libs, s)
         /\ is_loaded(loaded_libs, Final(s)))
        => EntriesOfFile(loaded_libs, Final(s)) = 1

\* C10: unload_ext of a path no dl_ptr has throws nothing and leaves
\* loaded_libs, loaded_extensions and root_nodes as they were; after any
\* unload_ext no dl_ptr has the path, so that a second one finds nothing
C10_UnloadOfNotLoadedNoOp ==
    [][last'.op = "unload" => \A p \in ExtPaths :
          Unload(p) =>
              /\ last'.err = "none"
              /\ EntryCount(loaded_libs', p) = 0
              /\ EntryCount(loaded_libs, p) = 0 =>
                     UNCHANGED <<loaded_libs, loaded_extensions,
                                 loaded_c_extensions, root_nodes, dlrefs>>]_vars

\* unload_ext found nothing to unload while modules are loaded and a tree is
\* registered
C10_Witness ==
    /\ last.op = "unload"
    /\ last.pos = 0
    /\ loaded_libs # <<>>
    /\ root_nodes # <<>>

\* the node is in a tree whose root has a root record
Registered(n) == IsRegisteredRoot(root_nodes, RootOf(n))

\* the last call was get_doc, brief, details or section
Queried == last.op \in QueryOps

\* C11: get_doc, brief, details and section of a node that is in no tree of a
\* registered root throw std::invalid_argument and run no function of an
\* extension
C11_QueryOfUnregisteredNodeFails ==
    (Queried /\ ~Registered(last.node)) =>
        (last.err = "invalid_argument" /\ last.invoked = <<>>)

\* C12: validate of a node whose extension was unloaded returns false and
\* reads no node in memory that an unload released
C12_ValidateReadsNoReleasedMemory ==
    \A n \in orphaned :
        /\ ParentChain(n) \cap released = {}
        /\ "false" \in ValidateOutcomes(n)
        /\ "crash" \notin ValidateOutcomes(n)

\* C13: validate(n) returns true when the root at the end of the parent links
\* of n has a root record and false when it has none, throws nothing and
\* leaves the registry as it was
C13_ValidateReportsRegisteredRoot ==
    [][last'.op = "validate" => \A n \in DOMAIN nodes :
          Validate(n) =>
              /\ last'.ret = IF Registered(n) THEN "true" ELSE "false"
              /\ last'.err = "none"
              /\ UNCHANGED <<loaded_libs, loaded_extensions, loaded_c_extensions,
                             root_nodes, nodes, dlrefs>>]_vars

\* C14: get_doc, brief, details and section of a node of a registered tree
\* run functions of the extension that returned the tree and of no other
C14_QueryGoesToTheOwner ==
    (Queried /\ Registered(last.node)) =>
        /\ last.err = "none"
        /\ last.ext = obtained[last.node]
        /\ \A k \in 1..Len(last.invoked) :
               /\ last.invoked[k].ext = obtained[last.node]
               /\ last.invoked[k].fn = last.op

\* get_doc of a node below the root ran the function of its extension while
\* the first root record belongs to another extension
C14_Witness ==
    /\ last.op = "get_doc"
    /\ Registered(last.node)
    /\ nodes[last.node].parent # 0
    /\ last.invoked # <<>>
    /\ root_nodes[1][2] # obtained[last.node]

\* q is a prefix of str, character by character
IsPrefix(q, str) == Len(q) <= Len(str) /\ \A k \in 1..Len(q) : str[k] = q[k]

\* the nodes of the trees that have a root record
Reachable == UNION {Subtree(root_nodes[i][1]) : i \in 1..Len(root_nodes)}

\* number of root records whose tree has the node
Traversals(n) ==
    Cardinality({i \in 1..Len(root_nodes) : n \in Subtree(root_nodes[i][1])})

\* number of times x is in seq
Occurrences(seq, x) == Cardinality({k \in 1..Len(seq) : seq[k] = x})

\* the title or a synonym of node n starts with q
HasPrefix(n, q) ==
    \/ IsPrefix(q, nodes[n].title)
    \/ \E k \in 1..Len(nodes[n].synonyms) : IsPrefix(q, nodes[n].synonyms[k])

\* C15: search(q) returns the nodes of the registered trees whose title or one
\* of whose synonyms starts with q, each once for every root record whose tree
\* it is in, and no other node
C15_SearchFindsThePrefixMatches ==
    last.op = "search" =>
        \A n \in DOMAIN nodes :
            Occurrences(last.found, n) =
                IF n \in Reachable /\ HasPrefix(n, last.query)
                THEN Traversals(n) ELSE 0

\* search found a node through a synonym only, a node below it through title
\* and synonym both, and left out a node of the same tree
C15_Witness ==
    /\ last.op = "search"
    /\ last.query # <<>>
    /\ \E n \in Reachable, m \in Reachable, o \in Reachable :
           /\ Occurrences(last.found, n) = 1
           /\ ~IsPrefix(last.query, nodes[n].title)
           /\ nodes[m].parent = n
           /\ Occurrences(last.found, m) = 1
           /\ IsPrefix(last.query, nodes[m].title)
           /\ \E k \in 1..Len(nodes[m].synonyms) :
                  IsPrefix(last.query, nodes[m].synonyms[k])
           /\ RootOf(o) = RootOf(n)
           /\ Occurrences(last.found, o) = 0

\* C16: search of the empty string returns every node of the registered
\* trees, and as many results as there are such nodes
C16_EmptyQueryFindsEveryNodeOnce ==
    (last.op = "search" /\ last.query = <<>>) =>
        /\ {last.found[k] : k \in 1..Len(last.found)} = Reachable
        /\ Len(last.found) = Cardinality(Reachable)

\* C17: every node c_extension built has the title and the synonyms of the
\* docview_extension_doc_tree_node it was built from, and as many children
C17_AdapterKeepsTitlesAndSynonyms ==
    \A n \in DOMAIN original_nodes :
        /\ nodes[n].title = ModuleTitle(original_nodes[n].i)
        /\ nodes[n].synonyms = ModuleSynonyms(original_nodes[n].i)
        /\ Len(nodes[n].children) =
               Cardinality({i \in 1..TreeSize : TreeShape[i] = original_nodes[n].i})

\* position of a node in its tree: 1 for the root
IndexInTree(n) == ((n - 1) % TreeSize) + 1

\* C18: get_doc, brief, details and section of a node c_extension built call
\* the function of the table with the docview_extension_doc_tree_node the
\* node was built from: the node at the same position of the tree the module
\* returned
C18_AdapterForwardsTheSourceNode ==
    (Queried /\ Registered(last.node) /\ last.ext.kind = "c_extension") =>
        \A k \in 1..Len(last.invoked) :
            /\ last.invoked[k].src = original_nodes[last.node]
            /\ last.invoked[k].src.file = last.ext.file
            /\ last.invoked[k].src.i = IndexInTree(last.node)
            /\ last.invoked[k].node = 0

\* section of the lowest node of the second tree of a c_extension reached the
\* function of the table
C18_Witness ==
    /\ last.op = "section"
    /\ last.ext.kind = "c_extension"
    /\ last.invoked # <<>>
    /\ IndexInTree(last.node) = TreeSize
    /\ Len(root_nodes) = 2
    /\ root_nodes[1][2] = last.ext
    /\ RootOf(last.node) = root_nodes[2][1]

\* C19: brief, details and section return the empty string and run no
\* function of the extension when the extension of the node does not have
\* the function
C19_MissingFunctionGivesEmptyString ==
    (/\ last.op \in {"brief", "details", "section"}
     /\ Registered(last.node)
     /\ ~ModuleImplements(last.ext.file, last.op))
    => (last.err = "none" /\ last.ret = "empty" /\ last.invoked = <<>>)

\* details of a node of a c_extension whose table has no get_details
C19_Witness ==
    /\ last.op = "details"
    /\ Registered(last.node)
    /\ last.ext.kind = "c_extension"
    /\ last.ret = "empty"

\* C20: get_doc_tree of an existing path that no active extension returns a
\* tree for returns nullptr, throws nothing and adds no root record; of a
\* missing path it throws
C20_NoMatchIsNotAnError ==
    [][last'.op = "parse" => \A path \in ParsePaths :
          Parse(path) =>
              IF ParseTarget(path) = ""
              THEN last'.err = "runtime_error" /\ last'.ret = "throw"
              ELSE (\A e \in ActiveSet : ~Parses(e, ParseTarget(path))) =>
                       /\ last'.ret = "nullptr"
                       /\ last'.err = "none"
                       /\ UNCHANGED <<root_nodes, nodes, loaded_extensions>>]_vars

\* get_doc_tree returned nullptr after it asked two active extensions while a
\* root record of another path is there
C20_Witness ==
    /\ last.op = "parse"
    /\ last.ret = "nullptr"
    /\ Len(last.calls) = 2
    /\ root_nodes # <<>>

\* C21: get_doc_tree of a path that does not exist, or of a symbolic link
\* whose target is missing, throws std::runtime_error, calls get_doc_tree of
\* no extension and leaves root_nodes as it was
C21_ParseOfMissingPathThrows ==
    [][last'.op = "parse" => \A path \in ParsePaths :
          (/\ Parse(path)
           /\ \/ Kind(path) = "missing"
              \/ Kind(path) = "symlink" /\ Kind(read_symlink(path)) = "missing")
          => /\ last'.ret = "throw"
             /\ last'.err = "runtime_error"
             /\ last'.calls = <<>>
             /\ UNCHANGED <<root_nodes, nodes, loaded_libs, loaded_extensions>>]_vars

\* get_doc_tree threw for a symbolic link whose target is missing while an
\* extension is active and a root record is there
C21_Witness ==
    /\ last.op = "parse"
    /\ last.err = "runtime_error"
    /\ is_symlink(last.path)
    /\ loaded_extensions # <<>>
    /\ root_nodes # <<>>

\* a load_ext of the path has registered an extension that is still there
HasExtension(libs, path) ==
    \E i \in 1..Len(libs) : libs[i].path = path /\ libs[i].extension # NullExt

load_ext_throw(why) ==
    IF why \in {"not_found", "not_file"} THEN "runtime_error" ELSE "invalid_argument"

\* C23: a load_ext that fails throws std::runtime_error when the path or its
\* target is missing or no regular file, and std::invalid_argument when the
\* module is no valid extension
C23_LoadFailureKindsDiffer ==
    (last.op = "load" /\ last.err # "none") => last.err = load_ext_throw(last.why)

\* node c is one of the children of node m
IsChildOf(c, m) == \E k \in 1..Len(nodes[m].children) : nodes[m].children[k] = c

\* C24: every node search returns is in an intact tree: each node on its
\* parent chain is among the children of its parent, the chain ends in a root
\* that has a root record, none of these nodes is in released memory and
\* validate of the node returns true; validate stays true for every node whose
\* extension has not been unloaded since the parse
C24_SearchResultsAreInIntactTrees ==
    /\ last.op = "search" =>
           \A k \in 1..Len(last.found) :
               LET n == last.found[k]
               IN  /\ \A m \in ParentChain(n) :
                          nodes[m].parent # 0 => IsChildOf(m, nodes[m].parent)
                   /\ IsRegisteredRoot(root_nodes, RootOf(n))
                   /\ ParentChain(n) \cap released = {}
                   /\ obtained[n] \in ActiveSet
                   /\ ValidateOutcomes(n) = {"true"}
    /\ \A n \in DOMAIN nodes \ orphaned : ValidateOutcomes(n) = {"true"}

\* search has found by its title the node two levels below the root, in the
\* tree of the second root record
C24_Witness ==
    /\ last.op = "search"
    /\ last.query # <<>>
    /\ Len(root_nodes) = 2
    /\ \E k \in 1..Len(last.found) :
           /\ IndexInTree(last.found[k]) = TreeSize
           /\ Cardinality(ParentChain(last.found[k])) = 3
           /\ RootOf(last.found[k]) = root_nodes[2][1]
           /\ RootOf(last.found[k]) # root_nodes[1][1]

\* the nodes c_extension::build_doc_tree has allocated
Converted == DOMAIN original_nodes

\* C25: no node build_doc_tree allocated is deleted while its c_extension
\* lives, which is up to the end of the process; the destructor then deletes
\* every such node once, and each node after its children
C25_AdapterFreesItsNodesOnce ==
    /\ last.op # "exit" => Converted \cap released = {}
    /\ last.op = "exit" =>
           /\ \A n \in Converted : Occurrences(last.freed, n) = 1
           /\ \A k \in 1..Len(last.freed) : last.freed[k] \in Converted
           /\ \A n \in Converted :
                  nodes[n].parent # 0 =>
                      Pos(last.freed, n) < Pos(last.freed, nodes[n].parent)

\* the process ended after the c_extension, unloaded by then, had built two
\* trees
C25_Witness ==
    /\ last.op = "exit"
    /\ Len(last.freed) = 2 * TreeSize
    /\ \E n \in Converted : n \in orphaned

\* seq without its i-th element
Without(seq, i) == SubSeq(seq, 1, i - 1) \o SubSeq(seq, i + 1, Len(seq))

\* C26: load_ext puts the new dl_ptr behind the others, and an unload_ext
\* that finds its path takes that one dl_ptr out: the others stay in their
\* order, each with the path, the handle and the extension it had
C26_LoadOrderIsKept ==
    [][/\ last'.op = "load" =>
              \/ loaded_libs' = loaded_libs
              \/ /\ Len(loaded_libs') = Len(loaded_libs) + 1
                 /\ SubSeq(loaded_libs', 1, Len(loaded_libs)) = loaded_libs
       /\ last'.op = "unload" =>
              IF last'.pos = 0 THEN loaded_libs' = loaded_libs
              ELSE loaded_libs' = Without(loaded_libs, last'.pos)]_vars

\* unload_ext took out the first of two dl_ptr objects, and the one that
\* moved to the front has an extension other than the unloaded one
C26_Witness ==
    /\ Unloaded
    /\ last.pos = 1
    /\ Len(loaded_libs) = 1
    /\ loaded_libs[1].extension # NullExt
    /\ loaded_libs[1].extension # last.ext
    /\ loaded_libs[1].handle # NullHandle

\* C27: a load_ext that throws leaves loaded_libs, loaded_extensions and
\* root_nodes as they were, is_loaded of the path is false after it, and a
\* load_ext of a path whose module is no valid extension throws every time
C27_FailedLoadChangesNothing ==
    [][last'.op = "load" => \A p \in LoadPaths :
          Load(p) =>
              /\ last'.err # "none" =>
                     /\ UNCHANGED <<loaded_libs, loaded_extensions, root_nodes>>
                     /\ ~is_loaded(loaded_libs', p)
              /\ (~ValidModulePath(p) /\ ~HasExtension(loaded_libs, p)) =>
                     last'.err # "none"]_vars

\* the c_extension objects among the active extensions
ActiveAdapters == {e \in ActiveSet : e.kind = "c_extension"}

\* C28: loaded_c_extensions holds the c_extension objects of the loaded
\* function table modules and no other: as many as there are c_extension
\* objects in loaded_extensions, and none that an unload_ext removed
C28_NoAdapterOutlivesItsUnload ==
    /\ Len(loaded_c_extensions) = Cardinality(ActiveAdapters)
    /\ \A k \in 1..Len(loaded_c_extensions) : loaded_c_extensions[k] \in ActiveSet

\* C29: load_ext of a module that has extension_object registers that
\* object, also when the module has a complete extension_functions table:
\* dlsym is not called for extension_functions and no c_extension is made
C29_NativeObjectIsLookedUpFirst ==
    [][(/\ last'.op = "load"
        /\ last'.handle # NullHandle
        /\ HasExtensionObject(last'.handle))
       => /\ last'.symbols = <<"extension_object">>
          /\ last'.ext = NativeExt(last'.handle)
          /\ loaded_extensions' = Append(loaded_extensions, NativeExt(last'.handle))
          /\ loaded_libs'[Len(loaded_libs')].extension = NativeExt(last'.handle)
          /\ UNCHANGED <<loaded_c_extensions, original_nodes>>]_vars

\* a module with extension_object and a complete extension_functions table
\* has been loaded
C29_Witness ==
    /\ last.op = "load"
    /\ last.err = "none"
    /\ HasExtensionObject(last.handle)
    /\ HasExtensionFunctions(last.handle)
    /\ c_extension_accepts(last.handle)
    /\ last.ext.kind = "native"

\* C30: a get_doc_tree call that returns nullptr has called get_doc_tree of
\* every extension in loaded_extensions once, whatever the extension's
\* get_applicability_level returns, and of nothing else
C30_NoMatchAsksEveryExtensionOnce ==
    (last.op = "parse" /\ last.ret = "nullptr") =>
        /\ \A e \in ActiveSet : Occurrences(last.calls, e) = 1
        /\ \A k \in 1..Len(last.calls) : last.calls[k] \in ActiveSet

\* C31: after unload_ext of a loaded path is_loaded of the path is false and
\* the extension is in loaded_extensions no more; get_doc_tree calls
\* extensions of loaded_extensions only, and an extension gets there through
\* a load_ext only, which puts it, and the dl_ptr of its path, at the end
C31_UnloadedExtensionIsNotAsked ==
    [][/\ (last'.op = "unload" /\ last'.pos > 0) =>
              /\ ~is_loaded(loaded_libs', last'.path)
              /\ last'.ext # NullExt => last'.ext \notin ActiveSet'
       /\ last'.op = "parse" =>
              \A k \in 1..Len(last'.calls) : last'.calls[k] \in ActiveSet
       /\ ActiveSet' \ ActiveSet # {} => (last'.op = "load" /\ last'.err = "none")
       /\ (last'.op = "load" /\ last'.err = "none" /\ last'.why # "already") =>
              /\ loaded_extensions' = Append(loaded_extensions, last'.ext)
              /\ loaded_libs' =
                     Append(loaded_libs, [handle |-> last'.handle,
                                          path |-> last'.path,
                                          extension |-> last'.ext])]_vars

\* an extension that was unloaded after it had returned a tree has been
\* loaded again, behind another one
C31_Witness ==
    /\ last.op = "load"
    /\ last.err = "none"
    /\ last.ext # NullExt
    /\ \E n \in orphaned : obtained[n] = last.ext
    /\ Len(loaded_extensions) = 2
    /\ loaded_extensions[2] = last.ext
    /\ loaded_extensions[1] # last.ext

\* number of dl_ptr objects of loaded_libs that hold handle h
Holders(libs, h) == Cardinality({i \in 1..Len(libs) : libs[i].handle = h})

\* C32: no handle is given to dlclose more often than dlopen returned it:
\* the count the loader keeps never falls below zero, and the dl_ptr objects
\* that hold a handle, each of which closes it once, are never more than the
\* opens that are still to be closed
C32_NoHandleIsClosedTwice ==
    \A h \in DOMAIN dlrefs :
        /\ dlrefs[h] >= 0
        /\ Holders(loaded_libs, h) <= dlrefs[h]

\* the process has ended after an erase had moved a dl_ptr, whose former
\* handle was never closed, and a module that kept a tree has been closed
C32_Witness ==
    /\ last.op = "exit"
    /\ \E h \in DOMAIN dlrefs : dlrefs[h] > 0
    /\ \E h \in DOMAIN dlrefs : dlrefs[h] = 0 /\ InModule(h) \cap released # {}

\* C33: no two root records have the same root, and search returns no node
\* more than once
C33_RootRecordsAreDistinct ==
    /\ \A i \in 1..Len(root_nodes), j \in 1..Len(root_nodes) :
           i # j => root_nodes[i][1] # root_nodes[j][1]
    /\ last.op = "search" =>
           \A n \in DOMAIN nodes : Occurrences(last.found, n) <= 1

\* the roots of the trees build_doc_tree has made
ConvertedRoots == {n \in Converted : original_nodes[n].i = 1}

\* C34: in every tree build_doc_tree made, whatever the parent fields of the
\* source nodes are, the root has no parent, every node is the parent of its
\* children, the tree has as many nodes as the tree of the module, and the
\* nodes have entries of original_nodes with different source nodes
C34_AdapterTreesHaveConsistentLinks ==
    \A r \in ConvertedRoots :
        /\ nodes[r].parent = 0
        /\ \A n \in Subtree(r) :
               /\ n \in Converted
               /\ \A k \in 1..Len(nodes[n].children) :
                      nodes[nodes[n].children[k]].parent = n
        /\ Cardinality(Subtree(r)) = TreeSize
        /\ \A n \in Subtree(r), m \in Subtree(r) :
               n # m => original_nodes[n] # original_nodes[m]

\* build_doc_tree has made two trees from source nodes whose parent fields
\* are not the nodes that list them as children
C34_Witness ==
    /\ Cardinality(ConvertedRoots) = 2
    /\ \E n \in Converted :
           /\ nodes[n].parent # 0
           /\ SourceParent(original_nodes[n].file, original_nodes[n].i)
                  # original_nodes[nodes[n].parent].i

\* the functions that only read the registry
ReadOps == QueryOps \cup {"search", "validate", "is_loaded"}

\* C35: get_doc, brief, details, section, search, validate and is_loaded leave
\* loaded_libs, loaded_extensions and root_nodes as they were, and so do
\* load_ext and a get_doc_tree without a tree with root_nodes; a get_doc_tree
\* that returns a tree appends its one record, and unload_ext takes out the
\* records of its extension and no other
C35_OnlyParseAndUnloadChangeTheRoots ==
    [][/\ last'.op \in ReadOps =>
              UNCHANGED <<loaded_libs, loaded_extensions, root_nodes>>
       /\ last'.op = "load" => UNCHANGED root_nodes
       /\ last'.op = "parse" =>
              IF last'.ret = "node"
              THEN root_nodes' = Append(root_nodes, <<last'.node, last'.ext>>)
              ELSE UNCHANGED root_nodes
       /\ last'.op = "unload" =>
              root_nodes' = SelectSeq(root_nodes, LAMBDA r : r[2] # last'.ext)]_vars

\* section was called for a node of the second of two registered trees
C35_Witness ==
    /\ last.op = "section"
    /\ last.err = "none"
    /\ Len(root_nodes) = 2
    /\ Len(loaded_libs) = 2
    /\ RootOf(last.node) = root_nodes[2][1]
    /\ root_nodes[1][1] # root_nodes[2][1]

C38_CStringsAndArraysAreTerminated ==
    last.ret \in {"string", "array", "text", "empty"} =>
        /\ last.op \in {CName(fn) : fn \in QueryOps} =>
               last.result = StringOf(last.ret) \o <<NUL>>
        /\ last.op = "docview_doc_tree_node_title" =>
               last.result = nodes[last.node].title \o <<NUL>>
        /\ last.op = "docview_doc_tree_node_synonyms" =>
               last.result =
                   [k \in 1..Len(nodes[last.node].synonyms) |->
                       nodes[last.node].synonyms[k] \o <<NUL>>] \o <<0>>
        /\ last.op = "docview_doc_tree_node_children" =>
               last.result = nodes[last.node].children \o <<0>>
        /\ last.op = "docview_search" =>
               last.result = search(root_nodes, 1, last.query) \o <<0>>

\* C36: when a handler of the shell that unloads extensions has finished,
\* every root in document_root_nodes and every node in the model the sidebar
\* shows satisfies validate, and the selection of a sidebar row does not
\* call get_doc with an invalid node
C36_ShellHoldsNoDanglingNode ==
    [][/\ pending' = <<>> =>
              \A n \in ShownNodes' \cup
                        {document_root_nodes'[k][1] :
                             k \in 1..Len(document_root_nodes')} :
                  ValidateOutcomes(n)' = {"true"}
       /\ \A n \in DOMAIN nodes :
              on_sidebar_option_selected(n) =>
                  /\ ValidateOutcomes(n) = {"true"}
                  /\ last'.ret # "throw"]_vars

\* an extension whose tree the sidebar showed was switched off, the
\* handler has finished and the sidebar shows the tree of another extension
C36_Witness ==
    /\ pending = <<>>
    /\ has_focus = "preferences_extension_list"
    /\ orphaned # {}
    /\ released # {}
    /\ sidebar_contents # <<>>
    /\ document_root_nodes # <<>>
    /\ \E i \in 1..Len(extension_list_contents) :
           /\ ~extension_list_contents[i].enabled
           /\ extension_list_contents[i].path \notin config_enabled
           /\ ~is_loaded(loaded_libs, extension_list_contents[i].path)
           /\ \E n \in released : obtained[n].file = extension_list_contents[i].path

====
